---------------------------- MODULE Spec2Model ----------------------------
(***************************************************************************)
(* Model of matrixclass.cpp: class Matrix (constructor, at,               *)
(* fill_increment_value, multiply, multiplyParallel) driven by a client    *)
(* that owns two operands, matrixA and matrixB, and the two results        *)
(* resultSingle and resultMulti, as demo() does; and of the driver: main,  *)
(* SafeIntInput and demo, reading its answers from a stream of tokens.     *)
(*                                                                         *)
(* A Matrix is a record [rows, cols, data]; data is the vector of vectors, *)
(* a function on 0..n-1 for a vector of n elements.  multiplyParallel is   *)
(* modelled step by step: the caller's spawn loop, every worker's          *)
(* accumulation statement, the join loop and the return interleave.        *)
(***************************************************************************)
EXTENDS Integers, Sequences, FiniteSets, TLC

(***************************************************************************)
(* Bounds of the model.                                                    *)
(***************************************************************************)
\* rows and cols of the operands range over 1..MaxDim
MaxDim == 2
\* num_threads ranges over -1..MaxThreads
MaxThreads == 4
\* std::random_device yields one of MaxSeed + 1 seeds
MaxSeed == 1
\* the client stores through at() at most MaxWrites times
MaxWrites == 1
\* in FillSpec std::random_device yields one of the seeds 0..MaxFillSeed
MaxFillSeed == 9
\* the numbers typed at the driver's prompts range over -1..MaxToken
MaxToken == 2
\* the thread counts typed at the driver's prompt range over -1..MaxThreadToken
MaxThreadToken == 3

\* uniform_int_distribution<> dis(1, 10)
DisMin == 1
DisMax == 10

\* the largest int: what cin >> input stores when the number typed overflows
IntMax == 2147483647

Dims == 1..MaxDim
ThreadCounts == -1..MaxThreads
Seeds == {4 * s : s \in 0..MaxSeed}
WriteVals == {-1}
\* arguments of at(): every index of the largest shape, one below and one above
AtArgs == -1..MaxDim

VARIABLES
    matrixA,             \* demo: Matrix matrixA (the `this` of both multiplications)
    matrixB,             \* demo: Matrix matrixB (the `other` of both multiplications)
    resultSingle,        \* demo: what multiply returned, <<>> when nothing was returned
    resultMulti,         \* demo: what multiplyParallel returned, <<>> when nothing was
    pc,                  \* where the client is: "ready", inside multiplyParallel
                         \* ("spawn", "join", "return"), or "crashed"
    num_threads,         \* multiplyParallel: its parameter
    elements_per_thread, \* multiplyParallel: its local
    result,              \* multiplyParallel: its local Matrix result, <<>> outside a call
    threads,             \* multiplyParallel: vector<thread>, one record per spawned thread
    joined,              \* multiplyParallel: how many threads the join loop has joined
    lastOp,              \* the last call the client made: [op, n], n the thread
                         \* count given to multiplyParallel (0 for the other calls)
    err,                 \* the exception that call threw, "none" when it returned
    writes,              \* how many stores through at() the client has made
    wrote,               \* per result cell, the workers that stored to it
    readBy,              \* per result cell, the workers that loaded it
    dpc,                 \* main: where the driver is: "input" (in the SafeIntInput
                         \* call number field), in demo ("demo", "multiply",
                         \* "parallel", "validate"), at the "quit" prompt, after
                         \* main returned ("exit") or after std::terminate
                         \* ("terminated")
    field,               \* main: which of its five SafeIntInput calls is running
    din,                 \* main: <<row_1, col_1, row_2, col_2, num_threads>>
    QUIT,                \* main: char QUIT
    out                  \* what the current cycle has printed: "none", "identical",
                         \* "differ" or "error" (the e.what() of the catch block)

vars == <<matrixA, matrixB, resultSingle, resultMulti, pc, num_threads,
          elements_per_thread, result, threads, joined, lastOp, err, writes,
          wrote, readBy, dpc, field, din, QUIT, out>>

driverVars == <<dpc, field, din, QUIT, out>>

(***************************************************************************)
(* class Matrix                                                            *)
(***************************************************************************)

\* std::vector<int>(n, v)
Vector(n, v) == [x \in 0..(n - 1) |-> v]

\* Matrix(int rows, int cols): rows(rows), cols(cols), data(rows, vector<int>(cols, 0))
Matrix(rows, cols) ==
    [rows |-> rows, cols |-> cols, data |-> Vector(rows, Vector(cols, 0))]

\* the check with > for >=
atOffByOne(this, row, col) ==
    IF row < 0 \/ row > this.rows \/ col < 0 \/ col > this.cols
    THEN [threw |-> "out_of_range", row |-> -1, col |-> -1]
    ELSE [threw |-> "none", row |-> row, col |-> col]

\* int& at(int row, int col): the exception thrown, or the cell referred to
at(this, row, col) ==
    IF row < 0 \/ row >= this.rows \/ col < 0 \/ col >= this.cols
    THEN [threw |-> "out_of_range", row |-> -1, col |-> -1]
    ELSE [threw |-> "none", row |-> row, col |-> col]

\* a store through the reference at() returned: m.at(row, col) = v
Store(this, ref, v) == [this EXCEPT !.data[ref.row][ref.col] = v]

\* std::mt19937 gen(seed): the n-th output (n = 0, 1, ...) of the generator.
\* The generator is a deterministic function of its seed and of the number of
\* draws made; it is modelled by a counter.
gen(seed, n) == seed + n

\* a distribution over one value too many
disWide(raw) == DisMin + (raw % (DisMax - DisMin + 2))

\* dis(gen): uniform_int_distribution<>(1, 10) maps a raw output into [1, 10]
dis(raw) == DisMin + (raw % (DisMax - DisMin + 1))

\* a fill that rebuilds data with push_back and one column too many
fillGrows(this, seed) ==
    [this EXCEPT !.data =
        [i \in 0..(this.rows - 1) |->
            [j \in 0..this.cols |-> dis(gen(seed, i * this.cols + j))]]]

\* void fill_increment_value(): for i < rows, for j < cols: data[i][j] = dis(gen)
fill_increment_value(this, seed) ==
    [this EXCEPT !.data =
        [i \in DOMAIN this.data |->
            [j \in DOMAIN this.data[i] |->
                IF i < this.rows /\ j < this.cols
                THEN dis(gen(seed, i * this.cols + j))
                ELSE this.data[i][j]]]]

\* the statement with = for +=
multiplyAssign(this, other, res, i, j, k) ==
    [res EXCEPT !.data[i][j] = this.data[i][k] * other.data[k][j]]

\* multiply, line 60: result.data[i][j] += this->data[i][k] * other.data[k][j]
multiplyAccumulate(this, other, res, i, j, k) ==
    [res EXCEPT !.data[i][j] = @ + this.data[i][k] * other.data[k][j]]

\* multiply, lines 57-63: the three nested loops, from (i, j, k) on
RECURSIVE multiplyLoop(_, _, _, _, _, _)
multiplyLoop(this, other, res, i, j, k) ==
    IF i >= this.rows THEN res
    ELSE IF j >= other.cols THEN multiplyLoop(this, other, res, i + 1, 0, 0)
    ELSE IF k >= this.cols THEN multiplyLoop(this, other, res, i, j + 1, 0)
    ELSE multiplyLoop(this, other,
                      multiplyAccumulate(this, other, res, i, j, k), i, j, k + 1)

\* Matrix multiply(const Matrix& other): the exception thrown, `this` after the
\* call, and the Matrix returned (<<>> when it threw)
multiply(this, other) ==
    IF this.cols # other.rows
    THEN [threw |-> "invalid_argument", this |-> this, ret |-> <<>>]
    ELSE [threw |-> "none", this |-> this,
          ret |-> <<multiplyLoop(this, other, Matrix(this.rows, other.cols), 0, 0, 0)>>]

\* C++ int division truncates toward zero (b # 0)
IntDiv(a, b) ==
    IF (a >= 0) = (b > 0)
    THEN (IF a >= 0 THEN a ELSE -a) \div (IF b > 0 THEN b ELSE -b)
    ELSE -((IF a >= 0 THEN a ELSE -a) \div (IF b > 0 THEN b ELSE -b))

\* the check with > for !=
MismatchOnlyGreater(this, other) == this.cols > other.rows

\* multiplyParallel, line 70: the dimension check
DimensionMismatch(this, other) == this.cols # other.rows

\* the quotient rounded up
ElementsPerThreadCeil(this, other, n) == IntDiv(this.rows * other.cols + n - 1, n)

\* multiplyParallel, line 77: this->rows * other.cols / num_threads
ElementsPerThread(this, other, n) == IntDiv(this.rows * other.cols, n)

\* start one cell early: the range overlaps the previous worker's
startOverlap(i, ept) == IF i * ept > 0 THEN i * ept - 1 ELSE 0

\* worker i, line 81: int start = i * elements_per_thread
start(i, ept) == i * ept

\* the last worker stops one index early
endOffByOne(i, ept, n, total) == IF i = n - 1 THEN total - 1 ELSE (i + 1) * ept

\* end without the last worker's special case
endNoRemainder(i, ept, n, total) == (i + 1) * ept

\* worker i, line 82: int end = (i == num_threads - 1) ? rows * other.cols : (i + 1) * ept
end(i, ept, n, total) == IF i = n - 1 THEN total ELSE (i + 1) * ept

\* the flat index divided by the rows of other
RowOfRows(index, other) == IntDiv(index, other.rows)

\* worker, line 85: int row = index / other.cols
RowOf(index, other) == IntDiv(index, other.cols)

\* C++ int remainder: a - b * (a / b)
IntRem(a, b) == a - b * IntDiv(a, b)

\* every flat index taken to the first column
ColOfFirst(index, other) == IntRem(index, 1)

\* worker, line 86: int col = index % other.cols
ColOf(index, other) == IntRem(index, other.cols)

\* the statement with = for +=
workerAssign(this, other, res, row, col, k) ==
    [this |-> this, other |-> other,
     result |-> [res EXCEPT !.data[row][col] = this.data[row][k] * other.data[k][col]]]

\* the statement with the product stored back into the left operand as well
workerClobber(this, other, res, row, col, k) ==
    [this |-> [this EXCEPT !.data[row][k] = @ * other.data[k][col]],
     other |-> other,
     result |-> [res EXCEPT !.data[row][col] = @ + this.data[row][k] * other.data[k][col]]]

\* worker, line 88: result.data[row][col] += this->data[row][k] * other.data[k][col];
\* the three matrices after the statement
workerAccumulate(this, other, res, row, col, k) ==
    [this |-> this, other |-> other,
     result |-> [res EXCEPT !.data[row][col] = @ + this.data[row][k] * other.data[k][col]]]

\* the thread object emplace_back creates for worker i: its loop variables
NewThread(i, ept) == [state |-> "run", index |-> start(i, ept), k |-> 0]

\* a join that does not wait
JoinNoWait(t) == TRUE

\* join loop, lines 95-97: t.join() returns once thread t has finished
Joinable(t) == t.state = "done"

\* a join loop that leaves out the last thread of the vector
JoinLoopSkipsLast(nJoined, ts) == nJoined >= Cardinality(DOMAIN ts) - 1

\* join loop: all threads of the vector have been joined
JoinLoopDone(nJoined, ts) == nJoined >= Cardinality(DOMAIN ts)

(***************************************************************************)
(* The client and the steps of multiplyParallel                            *)
(***************************************************************************)

Operands == {"A", "B"}

Operand(m) == IF m = "A" THEN matrixA ELSE matrixB

\* the cells of a rows x cols result, for the access record
Cells(m) == (0..(m.rows - 1)) \X (0..(m.cols - 1))

NoAccess == [c \in {} |-> {}]

Op(name) == [op |-> name, n |-> 0]

callVars == <<num_threads, elements_per_thread, result, threads, joined, wrote, readBy>>

Init ==
    /\ matrixA \in {Matrix(r, c) : r \in Dims, c \in Dims}
    /\ matrixB \in {Matrix(r, c) : r \in Dims, c \in Dims}
    /\ resultSingle = <<>>
    /\ resultMulti = <<>>
    /\ pc = "ready"
    /\ num_threads = 0
    /\ elements_per_thread = 0
    /\ result = <<>>
    /\ threads = <<>>
    /\ joined = 0
    /\ lastOp = Op("construct")
    /\ err = "none"
    /\ writes = 0
    /\ wrote = NoAccess
    /\ readBy = NoAccess
    /\ dpc = "input"
    /\ field = 1
    /\ din = <<0, 0, 0, 0, 2>>
    /\ QUIT = "N"
    /\ out = "none"

\* the client replaces operand m; it keeps no result of the operands' old contents
SetOperand(m, new) ==
    /\ matrixA' = IF m = "A" THEN new ELSE matrixA
    /\ matrixB' = IF m = "B" THEN new ELSE matrixB
    /\ resultSingle' = IF new = Operand(m) THEN resultSingle ELSE <<>>
    /\ resultMulti' = IF new = Operand(m) THEN resultMulti ELSE <<>>

\* m.fill_increment_value(), with the seed std::random_device gives
Fill(m, seed) ==
    /\ pc = "ready"
    /\ SetOperand(m, fill_increment_value(Operand(m), seed))
    /\ lastOp' = Op("fill")
    /\ err' = "none"
    /\ UNCHANGED <<pc, writes, callVars>>

\* m.at(row, col) = v
AtStore(m, row, col, v) ==
    LET ref == at(Operand(m), row, col) IN
    /\ pc = "ready"
    /\ lastOp' = Op("at")
    /\ err' = ref.threw
    /\ IF ref.threw # "none"
       THEN UNCHANGED <<matrixA, matrixB, resultSingle, resultMulti, writes>>
       ELSE /\ writes < MaxWrites
            /\ SetOperand(m, Store(Operand(m), ref, v))
            /\ writes' = writes + 1
    /\ UNCHANGED <<pc, callVars>>

\* resultSingle = matrixA.multiply(matrixB)
Multiply ==
    LET r == multiply(matrixA, matrixB) IN
    /\ pc = "ready"
    /\ matrixA' = r.this
    /\ resultSingle' = r.ret
    /\ lastOp' = Op("multiply")
    /\ err' = r.threw
    /\ UNCHANGED <<matrixB, resultMulti, pc, writes, callVars>>

\* matrixA.multiplyParallel(matrixB, n), lines 70-77: the check, the result, the
\* empty vector of threads and elements_per_thread.  Dividing by num_threads = 0
\* is undefined: the process is killed, or the division yields 0.
CallMultiplyParallel(n) ==
    /\ pc = "ready"
    /\ lastOp' = [op |-> "multiplyParallel", n |-> n]
    /\ resultMulti' = <<>>
    /\ IF DimensionMismatch(matrixA, matrixB)
       THEN /\ err' = "invalid_argument"
            /\ pc' = "ready"
            /\ num_threads' = 0
            /\ UNCHANGED <<elements_per_thread, result, threads, joined, wrote, readBy>>
       ELSE /\ err' = "none"
            /\ num_threads' = n
            /\ result' = <<Matrix(matrixA.rows, matrixB.cols)>>
            /\ threads' = <<>>
            /\ joined' = 0
            /\ wrote' = [c \in Cells(result'[1]) |-> {}]
            /\ readBy' = [c \in Cells(result'[1]) |-> {}]
            /\ IF n = 0
               THEN \/ pc' = "crashed" /\ elements_per_thread' = 0
                    \/ pc' = "spawn" /\ elements_per_thread' = 0
               ELSE /\ pc' = "spawn"
                    /\ elements_per_thread' = ElementsPerThread(matrixA, matrixB, n)
    /\ UNCHANGED <<matrixA, matrixB, resultSingle, writes>>

\* spawn loop, lines 79-92: threads.emplace_back(worker i)
SpawnThread ==
    LET i == Cardinality(DOMAIN threads) IN
    /\ pc = "spawn"
    /\ i < num_threads
    /\ threads' = [t \in 0..i |->
                     IF t = i THEN NewThread(i, elements_per_thread) ELSE threads[t]]
    /\ UNCHANGED <<matrixA, matrixB, resultSingle, resultMulti, pc, num_threads,
                   elements_per_thread, result, joined, lastOp, err, writes,
                   wrote, readBy>>

\* spawn loop: i < num_threads fails
SpawnDone ==
    /\ pc = "spawn"
    /\ ~(Cardinality(DOMAIN threads) < num_threads)
    /\ pc' = "join"
    /\ UNCHANGED <<matrixA, matrixB, resultSingle, resultMulti, lastOp, err, writes,
                   callVars>>

\* worker t, lines 84-90: one execution of the accumulation statement, with the
\* loop variables advanced to the next (index, k)
WorkerStep(t) ==
    LET th == threads[t]
        row == RowOf(th.index, matrixB)
        col == ColOf(th.index, matrixB)
        after == workerAccumulate(matrixA, matrixB, result[1], row, col, th.k)
    IN
    /\ pc \in {"spawn", "join", "return"}
    /\ th.state = "run"
    /\ th.index < end(t, elements_per_thread, num_threads,
                      matrixA.rows * matrixB.cols)
    /\ matrixA' = after.this
    /\ matrixB' = after.other
    /\ result' = <<after.result>>
    /\ threads' = [threads EXCEPT ![t] =
                     IF th.k + 1 < matrixA.cols
                     THEN [th EXCEPT !.k = th.k + 1]
                     ELSE [th EXCEPT !.index = th.index + 1, !.k = 0]]
    /\ wrote' = [wrote EXCEPT ![<<row, col>>] = @ \cup {t}]
    /\ readBy' = [readBy EXCEPT ![<<row, col>>] = @ \cup {t}]
    /\ UNCHANGED <<resultSingle, resultMulti, pc, num_threads, elements_per_thread,
                   joined, lastOp, err, writes>>

\* worker t, line 84: index < end fails and the thread finishes
WorkerExit(t) ==
    LET th == threads[t] IN
    /\ pc \in {"spawn", "join", "return"}
    /\ th.state = "run"
    /\ ~(th.index < end(t, elements_per_thread, num_threads,
                        matrixA.rows * matrixB.cols))
    /\ threads' = [threads EXCEPT ![t].state = "done"]
    /\ UNCHANGED <<matrixA, matrixB, resultSingle, resultMulti, pc, num_threads,
                   elements_per_thread, result, joined, lastOp, err, writes,
                   wrote, readBy>>

\* join loop, lines 95-97: t.join() on the next thread of the vector
Join ==
    /\ pc = "join"
    /\ ~JoinLoopDone(joined, threads)
    /\ Joinable(threads[joined])
    /\ joined' = joined + 1
    /\ UNCHANGED <<matrixA, matrixB, resultSingle, resultMulti, pc, num_threads,
                   elements_per_thread, result, threads, lastOp, err, writes,
                   wrote, readBy>>

\* join loop: the vector is exhausted
JoinDone ==
    /\ pc = "join"
    /\ JoinLoopDone(joined, threads)
    /\ pc' = "return"
    /\ UNCHANGED <<matrixA, matrixB, resultSingle, resultMulti, lastOp, err, writes,
                   callVars>>

\* line 99: return result; the locals are destroyed
Return ==
    /\ pc = "return"
    /\ resultMulti' = result
    /\ result' = <<>>
    /\ threads' = <<>>
    /\ num_threads' = 0
    /\ elements_per_thread' = 0
    /\ joined' = 0
    /\ wrote' = NoAccess
    /\ readBy' = NoAccess
    /\ pc' = "ready"
    /\ UNCHANGED <<matrixA, matrixB, resultSingle, lastOp, err, writes>>

Next ==
    \/ \E m \in Operands, seed \in Seeds : Fill(m, seed) /\ UNCHANGED driverVars
    \/ \E m \in Operands, row \in AtArgs, col \in AtArgs, v \in WriteVals :
          AtStore(m, row, col, v) /\ UNCHANGED driverVars
    \/ Multiply /\ UNCHANGED driverVars
    \/ \E n \in ThreadCounts : CallMultiplyParallel(n) /\ UNCHANGED driverVars
    \/ SpawnThread /\ UNCHANGED driverVars
    \/ SpawnDone /\ UNCHANGED driverVars
    \/ \E t \in DOMAIN threads : WorkerStep(t) /\ UNCHANGED driverVars
    \/ \E t \in DOMAIN threads : WorkerExit(t) /\ UNCHANGED driverVars
    \/ Join /\ UNCHANGED driverVars
    \/ JoinDone /\ UNCHANGED driverVars
    \/ Return /\ UNCHANGED driverVars

Spec == Init /\ [][Next]_vars

(***************************************************************************)
(* Properties                                                              *)
(***************************************************************************)

\* the sum over k = 0..n-1 of a[i][k] * b[k][j], from the last term down
RECURSIVE InnerProduct(_, _, _, _, _)
InnerProduct(a, b, i, j, n) ==
    IF n = 0 THEN 0
    ELSE a.data[i][n - 1] * b.data[n - 1][j] + InnerProduct(a, b, i, j, n - 1)

\* the a.rows x b.cols matrix of the inner products
MatProduct(a, b) ==
    [rows |-> a.rows, cols |-> b.cols,
     data |-> [i \in 0..(a.rows - 1) |->
                 [j \in 0..(b.cols - 1) |-> InnerProduct(a, b, i, j, a.cols)]]]

\* a 2 x 2 matrix from its four cells
Mat22(a, b, c, d) ==
    [rows |-> 2, cols |-> 2,
     data |-> [i \in 0..1 |-> [j \in 0..1 |->
                 IF i = 0 THEN (IF j = 0 THEN a ELSE b) ELSE (IF j = 0 THEN c ELSE d)]]]

\* m and n have the same shape and the same cells
SameCells(m, n) ==
    /\ m.rows = n.rows
    /\ m.cols = n.cols
    /\ \A i \in 0..(m.rows - 1) : \A j \in 0..(m.cols - 1) :
          m.data[i][j] = n.data[i][j]

\* the client is back from a multiplyParallel call that did not throw
ParallelReturned ==
    /\ pc = "ready"
    /\ lastOp.op = "multiplyParallel"
    /\ err = "none"

\* the client is inside a multiplyParallel call
InCall == pc \in {"spawn", "join", "return"}

Total == matrixA.rows * matrixB.cols

\* the flat indices worker i processes, from the range it computes
Range(i) ==
    {x \in -1..(Total + 1) :
        /\ start(i, elements_per_thread) <= x
        /\ x < end(i, elements_per_thread, num_threads, Total)}

\* C1: for matching dimensions and workerCount >= 1, under every interleaving,
\* what multiplyParallel returns has the shape and the cells of what multiply
\* returns for the same operands.
C1_ParallelEqualsSequential ==
    (ParallelReturned /\ lastOp.n >= 1) =>
        /\ Len(resultMulti) = 1
        /\ multiply(matrixA, matrixB).threw = "none"
        /\ SameCells(resultMulti[1], multiply(matrixA, matrixB).ret[1])
        /\ (resultSingle # <<>> => SameCells(resultMulti[1], resultSingle[1]))

\* a 2 x 2 product of filled operands computed by three workers (ranges of 1, 1
\* and 2 cells) while the client also holds the result of multiply
C1_Witness ==
    /\ ParallelReturned
    /\ lastOp.n = 3
    /\ resultSingle # <<>>
    /\ resultMulti[1].rows = 2
    /\ resultMulti[1].cols = 2
    /\ matrixA.cols = 2
    /\ resultMulti[1].data[1][1] > 0

\* C2: for workerCount >= 1 the ranges [start, end) of the workers partition
\* 0..rows*cols-1: every flat index is in exactly one range and no range holds
\* anything else.
C2_RangesPartition ==
    (InCall /\ num_threads >= 1) =>
        /\ \A x \in 0..(Total - 1) :
              Cardinality({i \in 0..(num_threads - 1) : x \in Range(i)}) = 1
        /\ \A i \in 0..(num_threads - 1) : Range(i) \subseteq 0..(Total - 1)

\* a call whose cell count (4) is not divisible by its worker count (3)
C2_Witness ==
    /\ InCall
    /\ num_threads = 3
    /\ Total = 4
    /\ elements_per_thread = 1
    /\ Cardinality(DOMAIN threads) = 3

\* C3: in every state of a call no result cell has been stored to by two
\* workers, and no worker has loaded a cell another worker stores to.
C3_NoConflict ==
    \A c \in DOMAIN wrote :
        /\ Cardinality(wrote[c]) <= 1
        /\ readBy[c] \subseteq wrote[c]
        /\ (wrote[c] # {} => c \in Cells(result[1]))

\* two workers are running and both have stored to cells of the result
C3_Witness ==
    /\ InCall
    /\ \E c1 \in DOMAIN wrote, c2 \in DOMAIN wrote :
          /\ wrote[c1] = {0}
          /\ wrote[c2] = {1}
          /\ threads[0].state = "run"
          /\ threads[1].state = "run"

\* C4: multiplyParallel reaches its return statement only when every worker it
\* spawned has finished, and no worker exists outside a call: the result handed
\* to the caller has no cell that is still going to change.
C4_ReturnAfterAllWorkers ==
    /\ pc = "return" =>
          /\ Cardinality(DOMAIN threads) = (IF num_threads > 0 THEN num_threads ELSE 0)
          /\ \A t \in DOMAIN threads : threads[t].state = "done"
    /\ pc = "ready" => threads = <<>>
    /\ (ParallelReturned /\ lastOp.n >= 1) =>
          \A c \in Cells(resultMulti[1]) :
              resultMulti[1].data[c[1]][c[2]] =
                  InnerProduct(matrixA, matrixB, c[1], c[2], matrixA.cols)

\* the call is at its return statement with four workers spawned
C4_Witness ==
    /\ pc = "return"
    /\ num_threads = 4
    /\ Total = 4
    /\ result[1].data[1][1] > 0

\* C5: for matching dimensions multiply returns the r1 x c2 matrix of the inner
\* products; [[1,2],[3,4]] times [[5,6],[7,8]] is [[19,22],[43,50]] from
\* multiply and from multiplyParallel with 1, 2 and 4 workers.
C5_MultiplyIsProduct ==
    /\ (lastOp.op = "multiply" /\ matrixA.cols = matrixB.rows) =>
          /\ err = "none"
          /\ Len(resultSingle) = 1
          /\ resultSingle[1].rows = matrixA.rows
          /\ resultSingle[1].cols = matrixB.cols
          /\ resultSingle[1] = MatProduct(matrixA, matrixB)
    /\ (matrixA = Mat22(1, 2, 3, 4) /\ matrixB = Mat22(5, 6, 7, 8)) =>
          /\ resultSingle # <<>> => resultSingle[1] = Mat22(19, 22, 43, 50)
          /\ (ParallelReturned /\ lastOp.n \in {1, 2, 4}) =>
                resultMulti[1] = Mat22(19, 22, 43, 50)

\* the scenario's operands, multiplied by multiply and by four workers
C5_Witness ==
    /\ matrixA = Mat22(1, 2, 3, 4)
    /\ matrixB = Mat22(5, 6, 7, 8)
    /\ resultSingle = <<Mat22(19, 22, 43, 50)>>
    /\ ParallelReturned
    /\ lastOp.n = 4
    /\ resultMulti # <<>>

\* the step is a call of multiply or multiplyParallel on operands whose inner
\* dimensions differ
MismatchCall ==
    /\ pc = "ready"
    /\ lastOp'.op \in {"multiply", "multiplyParallel"}
    /\ matrixA.cols # matrixB.rows

\* C6: when A.cols # B.rows, multiply and multiplyParallel (whatever the worker
\* count) throw the dimension-mismatch error: no result is allocated, no worker
\* is spawned, nothing is returned and both operands are unchanged.
C6_MismatchThrows ==
    [][MismatchCall =>
          /\ err' = "invalid_argument"
          /\ pc' = "ready"
          /\ result' = <<>>
          /\ threads' = <<>>
          /\ matrixA' = matrixA
          /\ matrixB' = matrixB
          /\ (lastOp'.op = "multiply" => resultSingle' = <<>>)
          /\ (lastOp'.op = "multiplyParallel" => resultMulti' = <<>>)]_vars

\* multiplyParallel has thrown on a 2 x 1 and a 2 x 2 operand, both filled
C6_Witness ==
    /\ lastOp.op = "multiplyParallel"
    /\ lastOp.n = 2
    /\ err = "invalid_argument"
    /\ matrixA.rows = 2 /\ matrixA.cols = 1
    /\ matrixB.rows = 2 /\ matrixB.cols = 2
    /\ matrixA.data[0][0] > 0
    /\ matrixB.data[0][0] > 0
    /\ resultMulti = <<>>

\* C7: at(row, col) throws out_of_range exactly when row < 0, row >= rows,
\* col < 0 or col >= cols, and then the matrix is unchanged; otherwise the store
\* through the reference changes the cell at (row, col) and no other cell.
C7_AtBounds ==
    [][\A m \in Operands, row \in AtArgs, col \in AtArgs, v \in WriteVals :
          AtStore(m, row, col, v) =>
              LET before == Operand(m)
                  after == IF m = "A" THEN matrixA' ELSE matrixB'
                  outside == \/ row < 0 \/ row > before.rows - 1
                             \/ col < 0 \/ col > before.cols - 1
              IN  /\ (err' = "out_of_range") <=> outside
                  /\ (err' = "none") <=> ~outside
                  /\ outside => (matrixA' = matrixA /\ matrixB' = matrixB)
                  /\ ~outside =>
                        /\ after.rows = before.rows
                        /\ after.cols = before.cols
                        /\ DOMAIN after.data = DOMAIN before.data
                        /\ \A i \in DOMAIN before.data :
                              /\ DOMAIN after.data[i] = DOMAIN before.data[i]
                              /\ \A j \in DOMAIN before.data[i] :
                                    after.data[i][j] =
                                        IF i = row /\ j = col THEN v
                                        ELSE before.data[i][j]
                        /\ (m = "A" => matrixB' = matrixB)
                        /\ (m = "B" => matrixA' = matrixA)]_vars

\* a store through at(1, 0) into a filled 2 x 2 matrix
C7_Witness ==
    /\ lastOp.op = "at"
    /\ err = "none"
    /\ matrixA.rows = 2 /\ matrixA.cols = 2
    /\ matrixA.data[1][0] = -1
    /\ matrixA.data[0][0] > 0
    /\ matrixA.data[0][1] > 0
    /\ matrixA.data[1][1] > 0

\* C8: multiplyParallel with workerCount <= 0 is rejected with an
\* invalid-worker-count error: no worker is spawned and nothing is returned.
C8_RejectsNonPositive ==
    (lastOp.op = "multiplyParallel" /\ lastOp.n <= 0
        /\ matrixA.cols = matrixB.rows) =>
            /\ err = "invalid_worker_count"
            /\ pc = "ready"
            /\ threads = <<>>
            /\ resultMulti = <<>>

\* data has m.rows rows of m.cols cells each
WellFormed(m) ==
    /\ DOMAIN m.data = 0..(m.rows - 1)
    /\ \A i \in DOMAIN m.data : DOMAIN m.data[i] = 0..(m.cols - 1)

\* every cell of m is 0
AllZero(m) == \A i \in DOMAIN m.data : \A j \in DOMAIN m.data[i] : m.data[i][j] = 0

\* the matrices that exist: the operands, the results held and the local result
Matrices ==
    {matrixA, matrixB}
        \cup {resultSingle[x] : x \in DOMAIN resultSingle}
        \cup {resultMulti[x] : x \in DOMAIN resultMulti}
        \cup {result[x] : x \in DOMAIN result}

\* C9: every matrix has rows rows of cols cells in every state; directly after
\* construction every cell is 0; no at-store, fill, multiply or multiplyParallel
\* step changes the row count, the column count or a row's length of an operand.
C9_ShapeInvariant ==
    /\ [](\A m \in Matrices : WellFormed(m))
    /\ [](lastOp.op = "construct" => (AllZero(matrixA) /\ AllZero(matrixB)))
    /\ [][/\ matrixA'.rows = matrixA.rows /\ matrixA'.cols = matrixA.cols
          /\ matrixB'.rows = matrixB.rows /\ matrixB'.cols = matrixB.cols
          /\ DOMAIN matrixA'.data = DOMAIN matrixA.data
          /\ DOMAIN matrixB'.data = DOMAIN matrixB.data
          /\ \A i \in DOMAIN matrixA.data :
                DOMAIN matrixA'.data[i] = DOMAIN matrixA.data[i]
          /\ \A i \in DOMAIN matrixB.data :
                DOMAIN matrixB'.data[i] = DOMAIN matrixB.data[i]]_vars

\* a 1 x 2 operand that was filled and stored to, with both products held
C9_Witness ==
    /\ matrixA.rows = 1 /\ matrixA.cols = 2
    /\ matrixB.rows = 2 /\ matrixB.cols = 2
    /\ writes = 1
    /\ matrixA.data[0][0] = -1
    /\ matrixA.data[0][1] > 0
    /\ matrixB.data[1][1] > 0
    /\ resultSingle # <<>>
    /\ resultMulti # <<>>
    /\ ParallelReturned

\* the step is a call of multiply, or a step of a multiplyParallel call (the
\* call itself, a spawn, a worker's step, a join, the return)
MultiplicationStep ==
    \/ pc = "ready" /\ lastOp'.op \in {"multiply", "multiplyParallel"}
    \/ InCall

\* C10: multiply and multiplyParallel leave both operands unchanged, in every
\* intermediate state of the workers too; a worker's step changes no matrix but
\* the call's own result.
C10_OperandsUnchanged ==
    [][MultiplicationStep =>
          /\ matrixA' = matrixA
          /\ matrixB' = matrixB
          /\ (InCall => resultSingle' = resultSingle)
          /\ (lastOp'.op = "multiply" => resultMulti' = resultMulti)]_vars

\* both multiplications have run on filled operands and returned
C10_Witness ==
    /\ ParallelReturned
    /\ lastOp.n = 2
    /\ resultSingle # <<>>
    /\ resultMulti # <<>>
    /\ resultMulti[1].rows = 2 /\ resultMulti[1].cols = 2
    /\ matrixA.cols = 2
    /\ \A i \in 0..1 : \A j \in 0..1 :
          matrixA.data[i][j] > 0 /\ matrixB.data[i][j] > 0

(***************************************************************************)
(* FillSpec: one operand, stored to and filled with every seed of          *)
(* 0..MaxFillSeed, so that the raw outputs pass the end of the             *)
(* distribution's range.                                                   *)
(***************************************************************************)

FillSeeds == 0..MaxFillSeed

FillInit == Init /\ matrixB = Matrix(1, 1)

FillNext ==
    \/ \E seed \in FillSeeds : Fill("A", seed) /\ UNCHANGED driverVars
    \/ \E row \in AtArgs, col \in AtArgs, v \in WriteVals : AtStore("A", row, col, v) /\ UNCHANGED driverVars

FillSpec == FillInit /\ [][FillNext]_vars

\* C11: after fill_increment_value every cell of the matrix is in 1..10,
\* whatever it held before (0, a stored -1, an earlier draw) and whatever the
\* generator yields; the rows, the columns and the row lengths are unchanged
\* and the other operand is untouched.
C11_FillRange ==
    [][\A m \in Operands, seed \in FillSeeds :
          Fill(m, seed) =>
              LET before == Operand(m)
                  after == IF m = "A" THEN matrixA' ELSE matrixB'
              IN  /\ after.rows = before.rows
                  /\ after.cols = before.cols
                  /\ DOMAIN after.data = 0..(before.rows - 1)
                  /\ \A i \in DOMAIN after.data :
                        /\ DOMAIN after.data[i] = 0..(before.cols - 1)
                        /\ \A j \in DOMAIN after.data[i] :
                              after.data[i][j] >= 1 /\ after.data[i][j] <= 10
                  /\ (m = "A" => matrixB' = matrixB)
                  /\ (m = "B" => matrixA' = matrixA)
                  /\ err' = "none"]_vars

\* a 2 x 2 matrix that held a stored -1 and was then filled with the draws
\* 9, 10, 1, 2: both ends of the range, past the wrap of the raw outputs
C11_Witness ==
    /\ lastOp.op = "fill"
    /\ writes = 1
    /\ matrixA = Mat22(9, 10, 1, 2)

(***************************************************************************)
(* IdentitySpec: the client fills an operand, or makes a freshly           *)
(* constructed square operand the identity by storing 1 through at() along *)
(* its diagonal, and multiplies with workerCount in 1..MaxThreads.         *)
(***************************************************************************)

\* for (i = from; i < this.rows; ++i) this.at(i, i) = 1
RECURSIVE StoreDiagonal(_, _)
StoreDiagonal(this, from) ==
    IF ~(from < this.rows) THEN this
    ELSE StoreDiagonal(Store(this, at(this, from, from), 1), from + 1)

MakeIdentity(m) ==
    /\ pc = "ready"
    /\ Operand(m).rows = Operand(m).cols
    /\ AllZero(Operand(m))
    /\ SetOperand(m, StoreDiagonal(Operand(m), 0))
    /\ lastOp' = Op("at")
    /\ err' = "none"
    /\ UNCHANGED <<pc, writes, callVars>>

IdentityNext ==
    \/ \E m \in Operands, seed \in Seeds : Fill(m, seed) /\ UNCHANGED driverVars
    \/ \E m \in Operands : MakeIdentity(m) /\ UNCHANGED driverVars
    \/ Multiply /\ UNCHANGED driverVars
    \/ \E n \in 1..MaxThreads : CallMultiplyParallel(n) /\ UNCHANGED driverVars
    \/ SpawnThread /\ UNCHANGED driverVars
    \/ SpawnDone /\ UNCHANGED driverVars
    \/ \E t \in DOMAIN threads : WorkerStep(t) /\ UNCHANGED driverVars
    \/ \E t \in DOMAIN threads : WorkerExit(t) /\ UNCHANGED driverVars
    \/ Join /\ UNCHANGED driverVars
    \/ JoinDone /\ UNCHANGED driverVars
    \/ Return /\ UNCHANGED driverVars

IdentitySpec == Init /\ [][IdentityNext]_vars

\* m is square with 1 on the diagonal and 0 elsewhere
IsIdentity(m) ==
    /\ m.rows = m.cols
    /\ \A i \in 0..(m.rows - 1) : \A j \in 0..(m.cols - 1) :
          m.data[i][j] = IF i = j THEN 1 ELSE 0

\* what multiply and multiplyParallel returned for the operands as they are
Products ==
    {resultSingle[x] : x \in DOMAIN resultSingle}
        \cup {resultMulti[x] : x \in DOMAIN resultMulti}

\* C12: when matrixB is the identity of size matrixA.cols, what multiply
\* returned and what multiplyParallel returned (workerCount 1..MaxThreads,
\* every interleaving) have the shape and the cells of matrixA; when matrixA is
\* the identity of size matrixB.rows, they have those of matrixB.
C12_IdentityNeutral ==
    /\ (IsIdentity(matrixB) /\ matrixB.rows = matrixA.cols)
          => \A p \in Products : SameCells(p, matrixA)
    /\ (IsIdentity(matrixA) /\ matrixA.cols = matrixB.rows)
          => \A p \in Products : SameCells(p, matrixB)

\* M x I with M = [[1,2],[3,4]]: returned by three workers, and by multiply
C12_Witness ==
    /\ matrixA = Mat22(1, 2, 3, 4)
    /\ IsIdentity(matrixB)
    /\ ParallelReturned
    /\ lastOp.n = 3
    /\ resultSingle = <<matrixA>>
    /\ resultMulti = <<matrixA>>

\* I x M with M = [[5,6],[7,8]]: returned by four workers, and by multiply
C12_WitnessLeft ==
    /\ IsIdentity(matrixA)
    /\ matrixB = Mat22(5, 6, 7, 8)
    /\ ParallelReturned
    /\ lastOp.n = 4
    /\ resultSingle = <<matrixB>>
    /\ resultMulti = <<matrixB>>

(***************************************************************************)
(* ConstructSpec: the client constructs operands from any int arguments,   *)
(* non-positive ones included, and fills them.                             *)
(***************************************************************************)

ConstructArgs == -1..MaxDim

\* what std::vector's constructor throws for a size beyond max_size()
AllocErrors == {"length_error", "bad_alloc"}

\* Matrix m(rows, cols), line 25: the members are initialised from the
\* arguments as they are.  A negative int converted to size_type is beyond
\* max_size(), for which std::vector's constructor throws; 0 is a valid size.
ConstructOperand(m, rows, cols) ==
    /\ pc = "ready"
    /\ lastOp' = Op("construct")
    /\ IF rows < 0 \/ cols < 0
       THEN /\ \E e \in AllocErrors : err' = e
            /\ UNCHANGED <<matrixA, matrixB, resultSingle, resultMulti>>
       ELSE /\ err' = "none"
            /\ SetOperand(m, Matrix(rows, cols))
    /\ UNCHANGED <<pc, writes, callVars>>

ConstructNext ==
    \/ \E m \in Operands, rows \in ConstructArgs, cols \in ConstructArgs :
          ConstructOperand(m, rows, cols) /\ UNCHANGED driverVars
    \/ \E m \in Operands, seed \in Seeds : Fill(m, seed) /\ UNCHANGED driverVars

ConstructSpec == Init /\ [][ConstructNext]_vars

\* C13: a construction with rows <= 0 or cols <= 0 fails and yields no matrix:
\* an error is raised (whatever exception stands for InvalidDimension) and no
\* operand is made.
C13_RejectsNonPositiveDimension ==
    [][\A m \in Operands, rows \in ConstructArgs, cols \in ConstructArgs :
          (ConstructOperand(m, rows, cols) /\ (rows <= 0 \/ cols <= 0))
              => /\ err' # "none"
                 /\ matrixA' = matrixA
                 /\ matrixB' = matrixB]_vars

\* what the code does instead: a size of 0 constructs a matrix without cells
\* and no error, a negative size fails with the allocation error of std::vector
C13_ZeroConstructs ==
    [][\A m \in Operands, rows \in ConstructArgs, cols \in ConstructArgs :
          ConstructOperand(m, rows, cols)
              => /\ (rows < 0 \/ cols < 0)
                    => (err' \in AllocErrors /\ matrixA' = matrixA /\ matrixB' = matrixB)
                 /\ (rows >= 0 /\ cols >= 0)
                    => (err' = "none" /\ Cells(IF m = "A" THEN matrixA' ELSE matrixB')
                                            = (0..(rows - 1)) \X (0..(cols - 1)))]_vars

\* floor(total / workerCount), for workerCount >= 1
FloorShare == Total \div num_threads

\* the flat indices the partition rule gives worker i: floor(total/workerCount)
\* of them from i * floor(total/workerCount), and for the last worker what
\* remains up to total - 1
Share(i) ==
    IF i < num_threads - 1
    THEN (i * FloorShare)..(i * FloorShare + FloorShare - 1)
    ELSE ((num_threads - 1) * FloorShare)..(Total - 1)

\* the cell flat index x addresses in row-major order
CellOf(x) == <<x \div matrixB.cols, x % matrixB.cols>>

\* the cells worker t has stored to
WrittenBy(t) == {c \in DOMAIN wrote : t \in wrote[c]}

\* C15: in a call with workerCount >= 1, every worker goes through the flat
\* indices of its share in ascending order from the share's first index: what
\* it has stored to are the cells (x div B.cols, x mod B.cols) of the indices
\* of its share below its loop variable (and of the one it is accumulating),
\* and when it has finished these are the cells of its whole share, so
\* floor(total/workerCount) cells for a worker that is not the last and
\* total - (workerCount-1)*floor(total/workerCount) cells for the last.
C15_WorkerShare ==
    (InCall /\ num_threads >= 1) =>
        \A t \in DOMAIN threads :
            LET th == threads[t]
                done == {x \in Share(t) : x < th.index}
                        \cup (IF th.k > 0 THEN {th.index} ELSE {})
            IN  /\ WrittenBy(t) = {CellOf(x) : x \in done}
                /\ done \subseteq Share(t)
                /\ Cardinality(WrittenBy(t)) = Cardinality(done)
                /\ th.state = "done" =>
                      /\ done = Share(t)
                      /\ Cardinality(WrittenBy(t)) =
                            IF t < num_threads - 1 THEN FloorShare
                            ELSE Total - (num_threads - 1) * FloorShare

\* 4 cells and 3 workers, all finished: workers 0 and 1 stored to one cell
\* each, (0,0) and (0,1), and the last worker to the two that remain
C15_Witness ==
    /\ pc = "return"
    /\ num_threads = 3
    /\ Total = 4
    /\ matrixB.cols = 2
    /\ WrittenBy(0) = {<<0, 0>>}
    /\ WrittenBy(1) = {<<0, 1>>}
    /\ WrittenBy(2) = {<<1, 0>>, <<1, 1>>}

\* a call with at least as many workers as cells is at its return statement
ManyWorkersAtReturn == pc = "return" /\ num_threads >= 1 /\ num_threads >= Total

\* C16 as stated: if workerCount >= total, some worker receives an empty range
\* and writes nothing, no error is raised and the matrix returned is the
\* complete product.
C16_SomeWorkerIdle ==
    ManyWorkersAtReturn =>
        /\ \E t \in DOMAIN threads : Range(t) = {} /\ WrittenBy(t) = {}
        /\ err = "none"
        /\ SameCells(result[1], MatProduct(matrixA, matrixB))

\* C16, amended: if workerCount > total, every worker but the last receives an
\* empty range and writes nothing and the last worker computes every cell; if
\* workerCount = total every worker receives exactly one cell; in both cases
\* no error is raised and the matrix returned is the complete product.
C16_IdleOnlyBeyondTotal ==
    /\ ManyWorkersAtReturn =>
          /\ num_threads > Total =>
                /\ \A t \in 0..(num_threads - 2) : Range(t) = {} /\ WrittenBy(t) = {}
                /\ Range(num_threads - 1) = 0..(Total - 1)
                /\ WrittenBy(num_threads - 1) = Cells(result[1])
          /\ num_threads = Total =>
                \A t \in 0..(num_threads - 1) :
                    /\ Range(t) = {t}
                    /\ WrittenBy(t) = {CellOf(t)}
          /\ err = "none"
          /\ SameCells(result[1], MatProduct(matrixA, matrixB))
    /\ (ParallelReturned /\ lastOp.n >= 1 /\ lastOp.n >= Total) =>
          /\ Len(resultMulti) = 1
          /\ SameCells(resultMulti[1], MatProduct(matrixA, matrixB))

\* three workers for the two cells of a non-zero product: workers 0 and 1 have
\* written nothing and the last worker both cells
C16_Witness ==
    /\ pc = "return"
    /\ num_threads = 3
    /\ Total = 2
    /\ WrittenBy(0) = {}
    /\ WrittenBy(1) = {}
    /\ WrittenBy(2) = Cells(result[1])
    /\ \A c \in Cells(result[1]) : result[1].data[c[1]][c[2]] > 0

(***************************************************************************)
(* LiveSpec: calls of multiplyParallel with workerCount in 1..MaxThreads   *)
(* under a fair scheduler: the calling thread and every worker thread that *)
(* can take a step eventually takes one.                                   *)
(***************************************************************************)

ThreadIds == 0..(MaxThreads - 1)

LiveNext ==
    \/ \E n \in 1..MaxThreads : CallMultiplyParallel(n) /\ UNCHANGED driverVars
    \/ SpawnThread /\ UNCHANGED driverVars
    \/ SpawnDone /\ UNCHANGED driverVars
    \/ \E t \in DOMAIN threads : WorkerStep(t) /\ UNCHANGED driverVars
    \/ \E t \in DOMAIN threads : WorkerExit(t) /\ UNCHANGED driverVars
    \/ Join /\ UNCHANGED driverVars
    \/ JoinDone /\ UNCHANGED driverVars
    \/ Return /\ UNCHANGED driverVars

\* a step of LiveNext taken by worker thread t
WorkerThread(t) ==
    /\ t \in DOMAIN threads
    /\ WorkerStep(t) \/ WorkerExit(t)
    /\ UNCHANGED driverVars

\* a step of LiveNext taken by the calling thread inside the call
CallingThread ==
    /\ SpawnThread \/ SpawnDone \/ Join \/ JoinDone \/ Return
    /\ UNCHANGED driverVars

Fairness ==
    /\ WF_vars(CallingThread)
    /\ \A t \in ThreadIds : WF_vars(WorkerThread(t))

LiveSpec == Init /\ [][LiveNext]_vars /\ Fairness

\* worker t of the current call exists and has not finished
Running(t) == InCall /\ t \in DOMAIN threads /\ threads[t].state = "run"

IntTokens(f) ==
    {[fail |-> TRUE, val |-> 0], [fail |-> TRUE, val |-> IntMax]}
        \cup {[fail |-> FALSE, val |-> v] :
                v \in -1..(IF f = 5 THEN MaxThreadToken ELSE MaxToken)}

QuitChars == {"y", "Y", "n", "N", "x", "0"}

QuitTokens ==
    {[fail |-> TRUE, ch |-> ""]} \cup {[fail |-> FALSE, ch |-> c] : c \in QuitChars}

\* tolower without the case-insensitivity
ToLowerSame(c) == c

\* tolower(c), on the characters of QuitChars
ToLower(c) == IF c = "Y" THEN "y" ELSE IF c = "N" THEN "n" ELSE c

\* the check with 0 for 1
SafeIntInputRetryBelowZero(failed, input) == failed \/ input < 0

\* SafeIntInput, line 153: while (cin.fail() or input < 1)
SafeIntInputRetry(failed, input) == failed \/ input < 1

\* main, line 185: while (!(cin >> QUIT) or !(tolower(QUIT) == 'y' or tolower(QUIT) == 'n'))
QuitRetry(failed, quit) == failed \/ ~(ToLower(quit) = "y" \/ ToLower(quit) = "n")

\* main, line 165: while (!(tolower(QUIT) == 'y'))
MainLoop(quit) == ~(ToLower(quit) = "y")

\* demo, lines 127-137: the comparison loop from (i, j) on: an exception of
\* at(), or whether valid is still true at the end
RECURSIVE validate(_, _, _, _, _, _)
validate(rs, rm, row_1, col_2, i, j) ==
    IF ~(i < row_1) THEN [threw |-> "none", valid |-> TRUE]
    ELSE IF ~(j < col_2) THEN validate(rs, rm, row_1, col_2, i + 1, 0)
    ELSE LET a == at(rs, i, j)
             b == at(rm, i, j)
         IN  IF a.threw # "none" THEN [threw |-> a.threw, valid |-> TRUE]
             ELSE IF b.threw # "none" THEN [threw |-> b.threw, valid |-> TRUE]
             ELSE IF rs.data[a.row][a.col] # rm.data[b.row][b.col]
                  THEN [threw |-> "none", valid |-> FALSE]
                  ELSE validate(rs, rm, row_1, col_2, i, j + 1)

\* demo is left, by return or by an exception: its locals are destroyed
DemoLocalsGone ==
    /\ matrixA' = Matrix(1, 1)
    /\ matrixB' = Matrix(1, 1)
    /\ resultSingle' = <<>>
    /\ resultMulti' = <<>>
    /\ result' = <<>>
    /\ threads' = <<>>
    /\ num_threads' = 0
    /\ elements_per_thread' = 0
    /\ joined' = 0
    /\ wrote' = NoAccess
    /\ readBy' = NoAccess
    /\ lastOp' = Op("construct")

\* main, lines 179-182: the catch block prints e.what(); the quit prompt follows
Caught(e) ==
    /\ err' = e
    /\ out' = "error"
    /\ dpc' = "quit"
    /\ pc' = "ready"
    /\ DemoLocalsGone
    /\ UNCHANGED <<writes, field, din, QUIT>>

\* the driver starts with no demo running
DriverInit == Init /\ matrixA = Matrix(1, 1) /\ matrixB = Matrix(1, 1)

\* SafeIntInput, lines 150-159: one cin >> input and the test of the loop; the
\* call returns when the test fails, and main goes on to its next call or to demo
ReadInt(tok) ==
    /\ dpc = "input"
    /\ din' = [din EXCEPT ![field] = tok.val]
    /\ IF SafeIntInputRetry(tok.fail, tok.val)
       THEN UNCHANGED <<dpc, field>>
       ELSE IF field < 5
            THEN field' = field + 1 /\ dpc' = dpc
            ELSE field' = 0 /\ dpc' = "demo"
    /\ UNCHANGED <<matrixA, matrixB, resultSingle, resultMulti, pc, lastOp, err,
                   writes, callVars, QUIT, out>>

\* demo, lines 107-110: both operands constructed and filled
DemoConstruct(seedA, seedB) ==
    /\ dpc = "demo"
    /\ matrixA' = fill_increment_value(Matrix(din[1], din[2]), seedA)
    /\ matrixB' = fill_increment_value(Matrix(din[3], din[4]), seedB)
    /\ lastOp' = Op("fill")
    /\ dpc' = "multiply"
    /\ UNCHANGED <<resultSingle, resultMulti, pc, err, writes, callVars, field, din,
                   QUIT, out>>

\* demo, line 114: resultSingle = matrixA.multiply(matrixB); what it throws
\* leaves demo and is caught in main
DemoMultiply ==
    LET r == multiply(matrixA, matrixB) IN
    /\ dpc = "multiply"
    /\ IF r.threw # "none"
       THEN Caught(r.threw)
       ELSE /\ matrixA' = r.this
            /\ resultSingle' = r.ret
            /\ lastOp' = Op("multiply")
            /\ dpc' = "parallel"
            /\ UNCHANGED <<matrixB, resultMulti, pc, err, writes, callVars, field,
                           din, QUIT, out>>

\* demo, line 121: matrixA.multiplyParallel(matrixB, num_threads) is entered
DemoCallParallel ==
    /\ dpc = "parallel"
    /\ pc = "ready"
    /\ resultMulti = <<>>
    /\ IF DimensionMismatch(matrixA, matrixB)
       THEN Caught("invalid_argument")
       ELSE /\ CallMultiplyParallel(din[5])
            /\ UNCHANGED driverVars

\* multiplyParallel, line 80: std::thread's constructor throws std::system_error
\* when the system cannot start another thread.  The exception leaves
\* multiplyParallel and destroys its vector of threads: with a thread in it,
\* none of them joined yet, ~thread() calls std::terminate; with none, the
\* exception reaches the catch block of main.
SpawnFail ==
    /\ dpc = "parallel"
    /\ pc = "spawn"
    /\ Cardinality(DOMAIN threads) < num_threads
    /\ IF threads # <<>>
       THEN /\ dpc' = "terminated"
            /\ err' = "system_error"
            /\ pc' = "crashed"
            /\ DemoLocalsGone
            /\ UNCHANGED <<writes, field, din, QUIT, out>>
       ELSE Caught("system_error")

\* demo, line 121: multiplyParallel returns into resultMulti
DemoReturn ==
    /\ dpc = "parallel"
    /\ Return
    /\ dpc' = "validate"
    /\ UNCHANGED <<field, din, QUIT, out>>

\* demo, lines 126-144: the comparison loop and the verdict printed; demo
\* returns, or an exception of at() leaves it and is caught in main
DemoValidate ==
    LET v == validate(resultSingle[1], resultMulti[1], din[1], din[4], 0, 0) IN
    /\ dpc = "validate"
    /\ IF v.threw # "none"
       THEN Caught(v.threw)
       ELSE /\ out' = IF v.valid THEN "identical" ELSE "differ"
            /\ dpc' = "quit"
            /\ DemoLocalsGone
            /\ UNCHANGED <<pc, err, writes, field, din, QUIT>>

\* main, lines 184-191 and 165: one cin >> QUIT and the test of the loop; when
\* the test fails the outer loop's test decides between a new cycle and the
\* end of main
ReadQuit(tok) ==
    LET quit == IF tok.fail THEN QUIT ELSE tok.ch IN
    /\ dpc = "quit"
    /\ QUIT' = quit
    /\ IF QuitRetry(tok.fail, quit)
       THEN UNCHANGED <<dpc, field, out, err>>
       ELSE IF MainLoop(quit)
            THEN dpc' = "input" /\ field' = 1 /\ out' = "none" /\ err' = "none"
            ELSE dpc' = "exit" /\ UNCHANGED <<field, out, err>>
    /\ UNCHANGED <<matrixA, matrixB, resultSingle, resultMulti, pc, lastOp, writes,
                   callVars, din>>

\* a step inside multiplyParallel while demo is in the call
InParallel == dpc = "parallel" /\ UNCHANGED driverVars

DriverNext ==
    \/ \E tok \in IntTokens(field) : ReadInt(tok)
    \/ \E seedA \in Seeds, seedB \in Seeds : DemoConstruct(seedA, seedB)
    \/ DemoMultiply
    \/ DemoCallParallel
    \/ SpawnThread /\ InParallel
    \/ SpawnFail
    \/ SpawnDone /\ InParallel
    \/ \E t \in DOMAIN threads : WorkerStep(t) /\ InParallel
    \/ \E t \in DOMAIN threads : WorkerExit(t) /\ InParallel
    \/ Join /\ InParallel
    \/ JoinDone /\ InParallel
    \/ DemoReturn
    \/ DemoValidate
    \/ \E tok \in QuitTokens : ReadQuit(tok)

DriverSpec == DriverInit /\ [][DriverNext]_vars

\* C14: an error raised inside demo never terminates the program and never
\* skips the quit prompt: whenever the cycle has raised an error the driver is
\* at the quit prompt of that cycle (or has left it by the answer y), the
\* error has been reported, and the cycle has not reported identical results.
C14_ErrorsCaught ==
    /\ dpc # "terminated"
    /\ pc # "crashed"
    /\ err # "none" =>
          /\ dpc \in {"quit", "exit"}
          /\ out = "error"

\* what holds of the errors the Matrix class itself throws: the
\* invalid_argument of multiply for col_1 # row_2 is caught and reported, and
\* the cycle goes on to its quit prompt
C14_MatrixErrorsCaught ==
    err \in {"invalid_argument", "out_of_range"} =>
        /\ dpc \in {"quit", "exit"}
        /\ out = "error"
        /\ din[2] # din[3]

\* main is in the demo call
InDemo == dpc \in {"demo", "multiply", "parallel", "validate"}

\* C18: whatever is typed (numbers, non-numbers, overflowing numbers, zero,
\* negatives), demo runs only with four dimensions and a thread count that are
\* numbers >= 1, and every SafeIntInput call that has returned in the current
\* round of prompts has left a number >= 1 in its variable: a failed or
\* smaller value is only ever held by the variable of the call that is still
\* prompting.
C18_DemoArgsPositive ==
    /\ InDemo => \A f \in 1..5 : din[f] >= 1 /\ din[f] # IntMax
    /\ InDemo => din[5] <= MaxThreadToken /\ \A f \in 1..4 : din[f] <= MaxToken
    /\ dpc = "input" => \A f \in 1..(field - 1) : din[f] >= 1 /\ din[f] # IntMax
    /\ dpc \in {"multiply", "parallel", "validate"} =>
          /\ matrixA.rows = din[1] /\ matrixA.cols = din[2]
          /\ matrixB.rows = din[3] /\ matrixB.cols = din[4]
    /\ (dpc = "parallel" /\ pc # "ready") => num_threads = din[5]

\* the fifth SafeIntInput call holds a rejected 0 for the thread count (its
\* variable held 2 or an accepted count before) and is prompting again, after
\* the four dimensions were accepted
C18_Witness ==
    /\ dpc = "input"
    /\ field = 5
    /\ din = <<2, 1, 1, 2, 0>>

\* C19: at the quit prompt an answer of y or Y ends main, an answer of n or N
\* starts a new cycle at the first dimension prompt, and every other answer
\* (and a failed read) prompts again; main returns in no other way than by y
\* or Y at the quit prompt and takes no step afterwards; a cycle reaches demo
\* only through all five prompts in order.
C19_QuitPrompt ==
    [][/\ \A tok \in QuitTokens :
             ReadQuit(tok) =>
                 /\ (~tok.fail /\ tok.ch \in {"y", "Y"}) => dpc' = "exit"
                 /\ (~tok.fail /\ tok.ch \in {"n", "N"}) =>
                       (dpc' = "input" /\ field' = 1 /\ out' = "none")
                 /\ (tok.fail \/ tok.ch \notin {"y", "Y", "n", "N"}) =>
                       (dpc' = "quit" /\ out' = out)
       /\ dpc = "quit" => dpc' \in {"quit", "input", "exit"}
       /\ dpc' = "exit" => (dpc = "quit" /\ QUIT' \in {"y", "Y"})
       /\ dpc # "exit"
       /\ (dpc = "quit" /\ dpc' = "input") => QUIT' \in {"n", "N"}
       /\ (dpc = "input" /\ dpc' = "input") => field' \in {field, field + 1}
       /\ dpc' = "demo" => (dpc = "input" /\ field = 5)
      ]_vars

\* main has ended on the answer Y after a cycle that reported identical results
C19_Witness ==
    /\ dpc = "exit"
    /\ QUIT = "Y"
    /\ out = "identical"

\* a second cycle has begun on the answer n and is at its third prompt
C19_WitnessAgain ==
    /\ dpc = "input"
    /\ field = 3
    /\ QUIT = "n"
    /\ din[5] = 3

\* multiply, lines 57-59: the (i, j, k) at which line 60 indexes the storage,
\* from (i, j, k) on
RECURSIVE multiplyIndices(_, _, _, _, _)
multiplyIndices(this, other, i, j, k) ==
    IF i >= this.rows THEN {}
    ELSE IF j >= other.cols THEN multiplyIndices(this, other, i + 1, 0, 0)
    ELSE IF k >= this.cols THEN multiplyIndices(this, other, i, j + 1, 0)
    ELSE {<<i, j, k>>} \cup multiplyIndices(this, other, i, j, k + 1)

\* result.data[i][j], this.data[i][k] and other.data[k][j] are elements of
\* the vectors
InStorage(this, other, res, i, j, k) ==
    /\ i \in DOMAIN res.data /\ j \in DOMAIN res.data[i]
    /\ i \in DOMAIN this.data /\ k \in DOMAIN this.data[i]
    /\ k \in DOMAIN other.data /\ j \in DOMAIN other.data[k]

\* C20: every index used without at() is in bounds.  Of every worker that is
\* about to execute the accumulation statement, row = index / B.cols is in
\* [0, A.rows), col = index % B.cols in [0, B.cols) and k in [0, A.cols), and
\* the three elements exist; every (i, j, k) of multiply's loops has its three
\* elements; every at(i, j) of the comparison loop is within both results and
\* out_of_range is never thrown.
C20_IndicesInBounds ==
    /\ \A t \in DOMAIN threads :
          LET th == threads[t]
              row == RowOf(th.index, matrixB)
              col == ColOf(th.index, matrixB)
          IN  (th.state = "run" /\ th.index < end(t, elements_per_thread,
                                                   num_threads, Total)) =>
                  /\ row = th.index \div matrixB.cols
                  /\ col = th.index % matrixB.cols
                  /\ row >= 0 /\ row < matrixA.rows
                  /\ col >= 0 /\ col < matrixB.cols
                  /\ th.k >= 0 /\ th.k < matrixA.cols
                  /\ InStorage(matrixA, matrixB, result[1], row, col, th.k)
    /\ (dpc = "multiply" /\ matrixA.cols = matrixB.rows) =>
          \A x \in multiplyIndices(matrixA, matrixB, 0, 0, 0) :
              InStorage(matrixA, matrixB, Matrix(matrixA.rows, matrixB.cols),
                        x[1], x[2], x[3])
    /\ dpc = "validate" =>
          \A i \in 0..(din[1] - 1), j \in 0..(din[4] - 1) :
              /\ at(resultSingle[1], i, j).threw = "none"
              /\ at(resultMulti[1], i, j).threw = "none"
    /\ err # "out_of_range"

\* three workers are inside a call on 2 x 2 operands, the last of them at
\* flat index 3 (row 1, col 1) with k = 1, the largest of each
C20_Witness ==
    /\ dpc = "parallel"
    /\ num_threads = 3
    /\ Cardinality(DOMAIN threads) = 3
    /\ threads[2].state = "run"
    /\ threads[2].index = 3
    /\ threads[2].k = 1
    /\ matrixA.cols = 2

\* the comparison loop is about to run over two 2 x 2 results
C20_WitnessValidate ==
    /\ dpc = "validate"
    /\ din[1] = 2
    /\ din[4] = 2
    /\ resultSingle[1].rows = 2
    /\ resultMulti[1].cols = 2

============================================================================
